---- MODULE Spec2Model ----
(***************************************************************************)
(* Model of download_drive.py: main() runs authenticate() once and then    *)
(* download_all_files() once.  Every call into the token file, the OAuth   *)
(* library, the Drive listing and media endpoints and the local disk is a  *)
(* step whose outcome (success or a raised exception) the environment      *)
(* chooses.                                                                *)
(***************************************************************************)
EXTENDS Integers, Sequences, FiniteSets, TLC

\* ------------------------------------------------------------------ bounds
MaxPages == 2      \* listing calls the provider answers in one run
PageSize == 2      \* the page_size argument: entries on one listing page
MaxFiles == 4      \* entries the provider lists in one run
MaxRemote == 2     \* files of the account when the remote is a fixed one

\* ------------------------------------------------------- data of the model
Names == {"a", "b"}

\* a mimeType is a sequence of segments, so that a prefix test is a real test
NativePrefix == <<"application/", "vnd.google-apps">>

MimeTypes ==
    { <<"application/", "vnd.google-apps", ".document">>,
      <<"application/", "pdf">> }

\* a prefix test written as an equality
StartsWithExact(s, p) == s = p

\* str.startswith
StartsWith(s, p) == Len(p) <= Len(s) /\ SubSeq(s, 1, Len(p)) = p

\* line 82
IsNative(item) == StartsWith(item.mimeType, NativePrefix)

\* a listing entry; its id is its place in the listing, see CurId
Items == [name : Names, mimeType : MimeTypes]

\* the pages of at most n entries
PageLists(n) == UNION { [1..m -> Items] : m \in 0..n }

\* page_token = None, and a response without nextPageToken
NoToken == 0

\* contents of the token file: kind says whether there is a file and whether
\* its bytes unpickle; a credential has the three fields the code reads
Blob(k) == [kind |-> k, token |-> FALSE, expired |-> FALSE, refresh_token |-> FALSE]
Absent == Blob("absent")
Corrupt == Blob("corrupt")
Truncated == Blob("truncated")
Credentials ==
    [kind : {"creds"}, token : BOOLEAN, expired : BOOLEAN, refresh_token : BOOLEAN]
NoCreds == Blob("None")
FreshCreds ==
    [kind |-> "creds", token |-> TRUE, expired |-> FALSE, refresh_token |-> TRUE]

\* creds.valid: there is an access token and it has not expired
Valid(c) == c.token /\ ~c.expired

\* the test of line 36 without its refresh_token conjunct
RefreshableNoToken(c) == c # NoCreds /\ c.expired

\* line 36: creds and creds.expired and creds.refresh_token
Refreshable(c) == c # NoCreds /\ c.expired /\ c.refresh_token

\* what the token file holds, by the fields of it: no file, bytes that do not
\* unpickle, a valid credential, an expired one with a refresh token, any other
Class(t) ==
    CASE t.kind = "absent" -> "absent"
      [] t.kind \in {"corrupt", "truncated"} -> "corrupt"
      [] t.kind = "creds" /\ t.token /\ ~t.expired -> "valid"
      [] t.kind = "creds" /\ t.expired /\ t.refresh_token -> "refreshable"
      [] OTHER -> "stale"

\* files of the save directory: the entry the bytes come from (<<0, 0>> for a
\* file that was there before the run), its mimeType, and how much is written
NoFile == [src |-> <<0, 0>>, mimeType |-> <<>>, st |-> "none"]
OldFile == [src |-> <<0, 0>>, mimeType |-> <<>>, st |-> "full"]

\* the save directory before the run: empty, or holding a file named "a"
InitialDisks ==
    { [n \in Names |-> NoFile],
      [n \in Names |-> IF n = "a" THEN OldFile ELSE NoFile] }

\* no fixed remote: the provider's answers are chosen call by call
NoRemote == [files |-> <<>>, pageLen |-> 1]

VARIABLES
    pc,            \* position of the program
    tokenStore,    \* contents of token_file
    tokenAtStart,  \* Class of the contents of token_file when the run started
    secretExists,  \* os.path.exists(credentials_file)
    creds,         \* authenticate: creds
    service,       \* main: service has been built
    err,           \* the exception that is propagating, or that ended the run
    exitCode,      \* process exit status, -1 while running
    flowRan,       \* the interactive flow was started
    refreshRan,    \* creds.refresh: "no", "ok", "rejected"
    page_token,    \* download_all_files: page_token
    items,         \* the entries of the page the for loop has not passed yet
    nextPageToken, \* results.get('nextPageToken'), NoToken when absent
    idx,           \* entries of the page the for loop has passed or is at
    file_count,    \* download_all_files: file_count
    returned,      \* return value of download_all_files, -1 before it returns
    disk,          \* save_dir: name -> file
    handle,        \* the name of the open output file, "" when none is open
    listCalls,     \* listing calls issued
    listFailedAt,  \* number of the listing call that raised, 0 when none
    listed,        \* entries the listing calls have returned
    requests,      \* get_media calls issued
    completed,     \* transfers that ran to the end of the with block
    failures,      \* transfers that raised
    skipped,       \* entries passed over by the continue of line 84
    remote,        \* the account's files and how the provider pages them,
                   \* when the run is against a fixed remote
    run,           \* which invocation of the program this is
    diskAfterFirst \* save_dir as the first invocation left it

vars == << pc, tokenStore, tokenAtStart, secretExists, creds, service, err,
           exitCode, flowRan, refreshRan, page_token, items, nextPageToken, idx,
           file_count, returned, disk, handle, listCalls, listFailedAt, listed,
           requests, completed, failures, skipped, remote, run,
           diskAfterFirst >>

authVars == << tokenStore, creds, service, flowRan, refreshRan >>
envVars == << tokenAtStart, secretExists, remote, run, diskAfterFirst >>
loopVars == << page_token, items, nextPageToken, idx, file_count, returned >>
diskVars == << disk, handle >>
ghostVars == << listCalls, listFailedAt, listed, requests, completed, failures,
                skipped >>

\* the entry the for loop is at, and its place in the listing (page, index)
CurItem == Head(items)
CurId == <<listCalls, idx>>

Init ==
    /\ pc = "main"
    /\ tokenStore \in {Absent, Corrupt} \cup Credentials
    /\ tokenAtStart = Class(tokenStore)
    /\ secretExists \in BOOLEAN
    /\ creds = NoCreds
    /\ service = FALSE
    /\ err = "none"
    /\ exitCode = -1
    /\ flowRan = FALSE
    /\ refreshRan = "no"
    /\ page_token = NoToken
    /\ items = <<>>
    /\ nextPageToken = NoToken
    /\ idx = 0
    /\ file_count = 0
    /\ returned = -1
    /\ disk \in InitialDisks
    /\ handle = ""
    /\ listCalls = 0
    /\ listFailedAt = 0
    /\ listed = 0
    /\ requests = 0
    /\ completed = 0
    /\ failures = 0
    /\ skipped = 0
    /\ remote = NoRemote
    /\ run = 1
    /\ diskAfterFirst = [n \in Names |-> NoFile]

\* ------------------------------------------------------------ authenticate

\* an exception leaves authenticate or download_all_files for main's handler
Raise(e) == pc' = "main_except" /\ err' = e

\* lines 121-124: main calls authenticate
MainStart ==
    /\ pc = "main"
    /\ pc' = "auth_load"
    /\ UNCHANGED << authVars, envVars, err, exitCode, loopVars, diskVars, ghostVars >>

\* lines 26-32: load the token file when it exists; pickle.load raises on
\* bytes that do not unpickle
AuthLoadToken ==
    /\ pc = "auth_load"
    /\ IF tokenStore = Absent
         THEN pc' = "auth_check" /\ creds' = NoCreds /\ err' = err
         ELSE IF tokenStore = Corrupt
                THEN Raise("UnpicklingError") /\ creds' = creds
                ELSE IF tokenStore = Truncated
                       THEN Raise("EOFError") /\ creds' = creds
                       ELSE pc' = "auth_check" /\ creds' = tokenStore /\ err' = err
    /\ UNCHANGED << tokenStore, service, flowRan, refreshRan, envVars, exitCode,
                    loopVars, diskVars, ghostVars >>

\* lines 35-36 and 39 with the test of line 35 always true
AuthCheckNoCache ==
    /\ pc = "auth_check"
    /\ IF Refreshable(creds)
         THEN pc' = "auth_refresh"
         ELSE pc' = "auth_flow"
    /\ UNCHANGED << authVars, envVars, err, exitCode, loopVars, diskVars, ghostVars >>

\* lines 35-36 and 39: the cached credential, a refresh, or the flow
AuthCheck ==
    /\ pc = "auth_check"
    /\ IF creds # NoCreds /\ Valid(creds)
         THEN pc' = "auth_build"
         ELSE IF Refreshable(creds)
                THEN pc' = "auth_refresh"
                ELSE pc' = "auth_flow"
    /\ UNCHANGED << authVars, envVars, err, exitCode, loopVars, diskVars, ghostVars >>

\* a refresh whose result is returned without being written to the token file
AuthRefreshNoSave ==
    /\ pc = "auth_refresh"
    /\ \E accepted \in BOOLEAN :
         IF accepted
           THEN /\ creds' = FreshCreds
                /\ refreshRan' = "ok"
                /\ pc' = "auth_build"
                /\ err' = err
           ELSE /\ creds' = creds
                /\ refreshRan' = "rejected"
                /\ Raise("RefreshError")
    /\ UNCHANGED << tokenStore, service, flowRan, envVars, exitCode, loopVars,
                    diskVars, ghostVars >>

\* lines 37-38: creds.refresh(Request()); the provider accepts or rejects
AuthRefresh ==
    /\ pc = "auth_refresh"
    /\ \E accepted \in BOOLEAN :
         IF accepted
           THEN /\ creds' = FreshCreds
                /\ refreshRan' = "ok"
                /\ pc' = "auth_save_open"
                /\ err' = err
           ELSE /\ creds' = creds
                /\ refreshRan' = "rejected"
                /\ Raise("RefreshError")
    /\ UNCHANGED << tokenStore, service, flowRan, envVars, exitCode, loopVars,
                    diskVars, ghostVars >>

\* lines 40-44: the interactive flow, which needs the client-secret file; the
\* user grants access or the flow raises
AuthFlow ==
    /\ pc = "auth_flow"
    /\ IF ~secretExists
         THEN /\ Raise("FileNotFoundError")
              /\ UNCHANGED << creds, flowRan >>
         ELSE /\ flowRan' = TRUE
              /\ \E granted \in BOOLEAN :
                   IF granted
                     THEN creds' = FreshCreds /\ pc' = "auth_save_open" /\ err' = err
                     ELSE creds' = creds /\ Raise("FlowError")
    /\ UNCHANGED << tokenStore, service, refreshRan, envVars, exitCode, loopVars,
                    diskVars, ghostVars >>

\* line 47: open(token_file, 'wb') truncates the token file
AuthSaveOpen ==
    /\ pc = "auth_save_open"
    /\ \E ok \in BOOLEAN :
         IF ok
           THEN tokenStore' = Truncated /\ pc' = "auth_save_dump" /\ err' = err
           ELSE tokenStore' = tokenStore /\ Raise("OSError")
    /\ UNCHANGED << creds, service, flowRan, refreshRan, envVars, exitCode,
                    loopVars, diskVars, ghostVars >>

\* lines 48-49: pickle.dump(creds, token)
AuthSaveDump ==
    /\ pc = "auth_save_dump"
    /\ \E ok \in BOOLEAN :
         IF ok
           THEN tokenStore' = creds /\ pc' = "auth_build" /\ err' = err
           ELSE tokenStore' = Truncated /\ Raise("PicklingError")
    /\ UNCHANGED << creds, service, flowRan, refreshRan, envVars, exitCode,
                    loopVars, diskVars, ghostVars >>

\* lines 51-52 and 125: build the client and return it (the local creds goes
\* with the frame); main calls download_all_files
AuthBuild ==
    /\ pc = "auth_build"
    /\ service' = TRUE
    /\ creds' = NoCreds
    /\ pc' = "makedirs"
    /\ UNCHANGED << tokenStore, flowRan, refreshRan, envVars, err, exitCode,
                    loopVars, diskVars, ghostVars >>

\* ------------------------------------------------------ download_all_files

\* lines 56-59: os.makedirs(save_dir, exist_ok=True); page_token, file_count
MakeDirs ==
    /\ pc = "makedirs"
    /\ \E ok \in BOOLEAN :
         IF ok
           THEN /\ pc' = "list"
                /\ page_token' = NoToken
                /\ file_count' = 0
                /\ err' = err
           ELSE /\ Raise("OSError")
                /\ UNCHANGED << page_token, file_count >>
    /\ UNCHANGED << authVars, envVars, exitCode, items, nextPageToken, idx,
                    returned, diskVars, ghostVars >>

Min(a, b) == IF a < b THEN a ELSE b

\* the page a listing call asks for: the first without a token, else the one
\* the token stands for
RequestedPage == IF page_token = NoToken THEN 1 ELSE page_token

\* what the provider may answer to the request for page n: a page of at most
\* pageSize entries and the token of page n + 1, or no token
Responses(n) ==
    [files : PageLists(Min(PageSize, MaxFiles - listed)),
     nextPageToken : IF n < MaxPages THEN {NoToken, n + 1} ELSE {NoToken}]

\* lines 62-70: service.files().list(pageToken=page_token).execute()
ListPage ==
    /\ pc = "list"
    /\ listCalls' = listCalls + 1
    /\ \/ /\ \E r \in Responses(RequestedPage) :
               /\ items' = r.files
               /\ nextPageToken' = r.nextPageToken
               /\ listed' = listed + Len(r.files)
          /\ pc' = "check_items"
          /\ UNCHANGED << err, listFailedAt >>
       \/ /\ pc' = "list_except"
          /\ err' = "HttpError"
          /\ listFailedAt' = listCalls + 1
          /\ UNCHANGED << items, nextPageToken, listed >>
    /\ UNCHANGED << authVars, envVars, exitCode, page_token, idx, file_count,
                    returned, diskVars, requests, completed, failures, skipped >>

\* lines 71-76: an empty page ends the loop, otherwise iterate over items
CheckItems ==
    /\ pc = "check_items"
    /\ IF Len(items) = 0
         THEN pc' = "finish" /\ idx' = idx
         ELSE pc' = "item" /\ idx' = 1
    /\ UNCHANGED << authVars, envVars, err, exitCode, page_token, items,
                    nextPageToken, file_count, returned, diskVars, ghostVars >>

\* lines 76-84: the next item of the for loop; a native entry is skipped
NextItem ==
    /\ pc = "item"
    /\ IF items = <<>>
         THEN /\ pc' = "after_page"
              /\ UNCHANGED << items, idx, skipped >>
         ELSE IF IsNative(CurItem)
                THEN /\ pc' = "item"
                     /\ items' = Tail(items)
                     /\ idx' = idx + 1
                     /\ skipped' = skipped + 1
                ELSE /\ pc' = "get_media"
                     /\ UNCHANGED << items, idx, skipped >>
    /\ UNCHANGED << authVars, envVars, err, exitCode, page_token, nextPageToken,
                    file_count, returned, diskVars, listCalls, listFailedAt,
                    listed, requests, completed, failures >>

\* an exception inside the inner try reaches the handler of line 95
FileRaise(e) ==
    /\ pc' = "file_except"
    /\ err' = e
    /\ failures' = failures + 1

\* line 87: request = service.files().get_media(fileId=file_id)
GetMedia ==
    /\ pc = "get_media"
    /\ requests' = requests + 1
    /\ \E ok \in BOOLEAN :
         IF ok
           THEN pc' = "open" /\ UNCHANGED << err, failures >>
           ELSE FileRaise("HttpError")
    /\ UNCHANGED << authVars, envVars, exitCode, loopVars, diskVars, listCalls,
                    listFailedAt, listed, completed, skipped >>

\* the file open(path, 'wb') leaves, with st bytes of the current entry
Written(st) == [src |-> CurId, mimeType |-> CurItem.mimeType, st |-> st]

\* line 88 with collision avoidance: when the name is taken, the entry is
\* written under another name
OpenFileRename ==
    /\ pc = "open"
    /\ \E ok \in BOOLEAN :
         IF ok
           THEN LET target == IF disk[CurItem.name].st = "none"
                                THEN CurItem.name
                                ELSE CHOOSE n \in Names : n # CurItem.name
                IN  /\ pc' = "chunk"
                    /\ disk' = [disk EXCEPT ![target] = Written("empty")]
                    /\ handle' = target
                    /\ UNCHANGED << err, failures >>
           ELSE /\ FileRaise("OSError")
                /\ UNCHANGED << disk, handle >>
    /\ UNCHANGED << authVars, envVars, exitCode, loopVars, listCalls,
                    listFailedAt, listed, requests, completed, skipped >>

\* line 88: open(path, 'wb') creates or truncates save_dir/file_name
OpenFile ==
    /\ pc = "open"
    /\ \E ok \in BOOLEAN :
         IF ok
           THEN /\ pc' = "chunk"
                /\ disk' = [disk EXCEPT ![CurItem.name] = Written("empty")]
                /\ handle' = CurItem.name
                /\ UNCHANGED << err, failures >>
           ELSE /\ FileRaise("OSError")
                /\ UNCHANGED << disk, handle >>
    /\ UNCHANGED << authVars, envVars, exitCode, loopVars, listCalls,
                    listFailedAt, listed, requests, completed, skipped >>

\* lines 88-92 without the with statement: f stays open when a chunk raises
NextChunkLeak ==
    /\ pc = "chunk"
    /\ \/ /\ disk' = [disk EXCEPT ![handle] = Written("partial")]
          /\ pc' = "chunk"
          /\ UNCHANGED << handle, err, completed, failures >>
       \/ /\ disk' = [disk EXCEPT ![handle] = Written("full")]
          /\ handle' = ""
          /\ completed' = completed + 1
          /\ pc' = "downloaded"
          /\ UNCHANGED << err, failures >>
       \/ /\ FileRaise("HttpError")
          /\ UNCHANGED << disk, handle, completed >>
    /\ UNCHANGED << authVars, envVars, exitCode, loopVars, listCalls,
                    listFailedAt, listed, requests, skipped >>

\* lines 89-92: one downloader.next_chunk(): a chunk is written and more are
\* to come, or the last chunk is written (done), or the call raises; leaving
\* the with block, normally or not, closes f.  The number of chunks of a file
\* is not bounded: after the first, a further chunk leaves the file partial.
NextChunk ==
    /\ pc = "chunk"
    /\ \/ /\ disk' = [disk EXCEPT ![handle] = Written("partial")]
          /\ pc' = "chunk"
          /\ UNCHANGED << handle, err, completed, failures >>
       \/ /\ disk' = [disk EXCEPT ![handle] = Written("full")]
          /\ handle' = ""
          /\ completed' = completed + 1
          /\ pc' = "downloaded"
          /\ UNCHANGED << err, failures >>
       \/ /\ FileRaise("HttpError")
          /\ handle' = ""
          /\ UNCHANGED << disk, completed >>
    /\ UNCHANGED << authVars, envVars, exitCode, loopVars, listCalls,
                    listFailedAt, listed, requests, skipped >>

\* lines 93-94 without the increment
DownloadedNoCount ==
    /\ pc = "downloaded"
    /\ file_count' = file_count
    /\ items' = Tail(items)
    /\ idx' = idx + 1
    /\ pc' = "item"
    /\ UNCHANGED << authVars, envVars, err, exitCode, page_token, nextPageToken,
                    returned, diskVars, ghostVars >>

\* lines 93-94: log, file_count += 1, on to the next item
Downloaded ==
    /\ pc = "downloaded"
    /\ file_count' = file_count + 1
    /\ items' = Tail(items)
    /\ idx' = idx + 1
    /\ pc' = "item"
    /\ UNCHANGED << authVars, envVars, err, exitCode, page_token, nextPageToken,
                    returned, diskVars, ghostVars >>

\* lines 95-96 with a break in the handler: the rest of the run is dropped
FileExceptBreak ==
    /\ pc = "file_except"
    /\ pc' = "finish"
    /\ err' = "none"
    /\ UNCHANGED << authVars, envVars, exitCode, loopVars, diskVars, ghostVars >>

\* lines 95-96 with a handler that also removes the file at path
FileExceptCleanup ==
    /\ pc = "file_except"
    /\ disk' = [disk EXCEPT ![CurItem.name] = NoFile]
    /\ items' = Tail(items)
    /\ idx' = idx + 1
    /\ pc' = "item"
    /\ err' = "none"
    /\ UNCHANGED << authVars, envVars, exitCode, page_token, nextPageToken,
                    file_count, returned, handle, ghostVars >>

\* lines 86-96 without the inner try: the error of an entry reaches the
\* handler of line 102
FileExceptAbort ==
    /\ pc = "file_except"
    /\ pc' = "list_except"
    /\ UNCHANGED << authVars, envVars, err, exitCode, loopVars, diskVars,
                    ghostVars >>

\* lines 95-96: the handler logs the error, the for loop goes on
FileExcept ==
    /\ pc = "file_except"
    /\ items' = Tail(items)
    /\ idx' = idx + 1
    /\ pc' = "item"
    /\ err' = "none"
    /\ UNCHANGED << authVars, envVars, exitCode, page_token, nextPageToken,
                    file_count, returned, diskVars, ghostVars >>

\* lines 98-100 with the token tested but not kept for the next call
AfterPageKeepToken ==
    /\ pc = "after_page"
    /\ page_token' = page_token
    /\ IF nextPageToken = NoToken
         THEN pc' = "finish"
         ELSE pc' = "list"
    /\ UNCHANGED << authVars, envVars, err, exitCode, items, nextPageToken, idx,
                    file_count, returned, diskVars, ghostVars >>

\* lines 98-100: take the continuation token, stop when there is none
AfterPage ==
    /\ pc = "after_page"
    /\ page_token' = nextPageToken
    /\ IF nextPageToken = NoToken
         THEN pc' = "finish"
         ELSE pc' = "list"
    /\ UNCHANGED << authVars, envVars, err, exitCode, items, nextPageToken, idx,
                    file_count, returned, diskVars, ghostVars >>

\* lines 102-104 with the error raised again to the caller
ListExceptRaise ==
    /\ pc = "list_except"
    /\ pc' = "main_except"
    /\ UNCHANGED << authVars, envVars, err, exitCode, loopVars, diskVars, ghostVars >>

\* lines 102-104: the handler logs the listing error and breaks
ListExcept ==
    /\ pc = "list_except"
    /\ pc' = "finish"
    /\ err' = "none"
    /\ UNCHANGED << authVars, envVars, exitCode, loopVars, diskVars, ghostVars >>

\* lines 106-107: log the total and return file_count
Finish ==
    /\ pc = "finish"
    /\ returned' = file_count
    /\ pc' = "main_return"
    /\ UNCHANGED << authVars, envVars, err, exitCode, page_token, items,
                    nextPageToken, idx, file_count, diskVars, ghostVars >>

\* ------------------------------------------------------------------- main

\* line 125 returned: main ends and the interpreter exits with status 0
MainReturn ==
    /\ pc = "main_return"
    /\ exitCode' = 0
    /\ pc' = "exited"
    /\ UNCHANGED << authVars, envVars, err, loopVars, diskVars, ghostVars >>

\* lines 126-128 with exit(0)
MainExceptZero ==
    /\ pc = "main_except"
    /\ exitCode' = 0
    /\ pc' = "exited"
    /\ UNCHANGED << authVars, envVars, err, loopVars, diskVars, ghostVars >>

\* lines 126-128: log "Program failed" and exit(1)
MainExcept ==
    /\ pc = "main_except"
    /\ exitCode' = 1
    /\ pc' = "exited"
    /\ UNCHANGED << authVars, envVars, err, loopVars, diskVars, ghostVars >>

Next ==
    \/ MainStart
    \/ AuthLoadToken
    \/ AuthCheck
    \/ AuthRefresh
    \/ AuthFlow
    \/ AuthSaveOpen
    \/ AuthSaveDump
    \/ AuthBuild
    \/ MakeDirs
    \/ ListPage
    \/ CheckItems
    \/ NextItem
    \/ GetMedia
    \/ OpenFile
    \/ NextChunk
    \/ Downloaded
    \/ FileExcept
    \/ AfterPage
    \/ ListExcept
    \/ Finish
    \/ MainReturn
    \/ MainExcept

Spec == Init /\ [][Next]_vars

\* the values the variables take
TypeOK ==
    /\ pc \in {"main", "auth_load", "auth_check", "auth_refresh", "auth_flow",
               "auth_save_open", "auth_save_dump", "auth_build", "makedirs",
               "list", "check_items", "item", "get_media", "open", "chunk",
               "downloaded", "file_except", "after_page", "list_except",
               "finish", "main_return", "main_except", "exited"}
    /\ tokenStore \in {Absent, Corrupt, Truncated} \cup Credentials
    /\ creds \in {NoCreds} \cup Credentials
    /\ file_count \in 0..MaxFiles
    /\ listed \in 0..MaxFiles
    /\ listCalls \in 0..MaxPages
    /\ exitCode \in {-1, 0, 1}
    /\ handle \in Names \cup {""}
    /\ run \in {1, 2}
    /\ remote.pageLen \in 1..PageSize
    /\ Len(remote.files) <= MaxRemote

\* ------------------------------------------- two runs against one remote

\* what the transfer of a file of the account does, each time it is tried:
\* it succeeds, or get_media raises, or the open of the output file raises
\* (a name the file system refuses), or a chunk raises
Fates == {"ok", "request", "open", "chunk"}

RemoteEntries ==
    { e \in [name : Names, mimeType : MimeTypes, fate : Fates] :
        IsNative(e) => e.fate = "ok" }

\* an account of at most MaxRemote files, listed pageLen entries to the page
Remotes ==
    { r \in [files : UNION { [1..m -> RemoteEntries] : m \in 0..MaxRemote },
             pageLen : 1..PageSize] :
        Len(r.files) <= r.pageLen * MaxPages }

\* the entries of page p of the fixed remote, as files().list returns them
RemotePage(p) ==
    LET lo == (p - 1) * remote.pageLen + 1
        hi == Min(p * remote.pageLen, Len(remote.files))
    IN  [i \in 1..(hi - lo + 1) |->
           [name |-> remote.files[lo + i - 1].name,
            mimeType |-> remote.files[lo + i - 1].mimeType]]

\* the fate of the entry the for loop is at
Fate == remote.files[(listCalls - 1) * remote.pageLen + idx].fate

\* lines 56-59 when save_dir can be created
MakeDirsFixed == MakeDirs /\ pc' = "list"

\* lines 62-70 against the fixed remote: the listing call returns the page
\* asked for, with a token as long as entries remain
ListPageFixed ==
    /\ ListPage
    /\ pc' = "check_items"
    /\ items' = RemotePage(RequestedPage)
    /\ nextPageToken' = IF RequestedPage * remote.pageLen < Len(remote.files)
                          THEN RequestedPage + 1
                          ELSE NoToken

\* line 87 against the fixed remote
GetMediaFixed == GetMedia /\ (pc' = "open" <=> Fate # "request")

\* line 88 against the fixed remote
OpenFileFixed == OpenFile /\ (pc' = "chunk" <=> Fate # "open")

\* lines 89-92 against the fixed remote
NextChunkFixed ==
    /\ NextChunk
    /\ pc' = "file_except" => Fate = "chunk"
    /\ pc' = "downloaded" => Fate = "ok"

\* lines 130-131: the program is started again once the first run has
\* exited; the token file, the save directory and the remote stay
Restart ==
    /\ pc = "exited"
    /\ run = 1
    /\ run' = 2
    /\ diskAfterFirst' = disk
    /\ pc' = "main"
    /\ tokenAtStart' = Class(tokenStore)
    /\ creds' = NoCreds
    /\ service' = FALSE
    /\ err' = "none"
    /\ exitCode' = -1
    /\ flowRan' = FALSE
    /\ refreshRan' = "no"
    /\ page_token' = NoToken
    /\ items' = <<>>
    /\ nextPageToken' = NoToken
    /\ idx' = 0
    /\ file_count' = 0
    /\ returned' = -1
    /\ listCalls' = 0
    /\ listFailedAt' = 0
    /\ listed' = 0
    /\ requests' = 0
    /\ completed' = 0
    /\ failures' = 0
    /\ skipped' = 0
    /\ UNCHANGED << tokenStore, secretExists, remote, diskVars >>

\* a valid cached token, any save directory, any remote
InitTwice ==
    /\ pc = "main"
    /\ tokenStore = FreshCreds
    /\ tokenAtStart = Class(tokenStore)
    /\ secretExists = FALSE
    /\ creds = NoCreds
    /\ service = FALSE
    /\ err = "none"
    /\ exitCode = -1
    /\ flowRan = FALSE
    /\ refreshRan = "no"
    /\ page_token = NoToken
    /\ items = <<>>
    /\ nextPageToken = NoToken
    /\ idx = 0
    /\ file_count = 0
    /\ returned = -1
    /\ disk \in InitialDisks
    /\ handle = ""
    /\ listCalls = 0
    /\ listFailedAt = 0
    /\ listed = 0
    /\ requests = 0
    /\ completed = 0
    /\ failures = 0
    /\ skipped = 0
    /\ remote \in Remotes
    /\ run = 1
    /\ diskAfterFirst = [n \in Names |-> NoFile]

NextTwice ==
    \/ MainStart
    \/ AuthLoadToken
    \/ AuthCheck
    \/ AuthBuild
    \/ MakeDirsFixed
    \/ ListPageFixed
    \/ CheckItems
    \/ NextItem
    \/ GetMediaFixed
    \/ OpenFileFixed
    \/ NextChunkFixed
    \/ Downloaded
    \/ FileExcept
    \/ AfterPage
    \/ Finish
    \/ MainReturn
    \/ Restart

SpecTwice == InitTwice /\ [][NextTwice]_vars

\* ------------------------------------------- one run, with a valid token

\* a valid cached token: authenticate returns the client at once
InitRun ==
    /\ Init
    /\ tokenStore = FreshCreds
    /\ ~secretExists

NextRun ==
    \/ MainStart
    \/ AuthLoadToken
    \/ AuthCheck
    \/ AuthBuild
    \/ MakeDirs
    \/ ListPage
    \/ CheckItems
    \/ NextItem
    \/ GetMedia
    \/ OpenFile
    \/ NextChunk
    \/ Downloaded
    \/ FileExcept
    \/ AfterPage
    \/ ListExcept
    \/ Finish
    \/ MainReturn
    \/ MainExcept

\* the program is one thread that runs until it exits, every call of it
\* returns or raises, and the chunk loop of lines 91-92 does not go on for
\* ever: a step that changes the state is taken as long as one is possible
SpecRun == InitRun /\ [][NextRun]_vars /\ WF_vars(NextRun)

\* ----------------------------------------------------------------- claims

\* positions inside the transfer of one entry (lines 86-96)
Transferring == {"get_media", "open", "chunk", "downloaded", "file_except"}

\* positions after the while loop of download_all_files
AfterLoop == {"finish", "main_return", "exited"}

\* the mimeTypes that begin with the provider-native prefix, segment by segment
NativeTypes ==
    { m \in MimeTypes :
        /\ Len(m) >= Len(NativePrefix)
        /\ \A i \in 1..Len(NativePrefix) : m[i] = NativePrefix[i] }

\* C1: an error raised while one entry is transferred (by get_media, by the
\* open of the output file or by a chunk) reaches the handler of that entry
\* only; the handler goes on with the next entry of the same page and leaves
\* the count and the continuation token alone, the loop goes on to the next
\* page when there is a token, every listed entry is accounted for when the
\* loop has ended, and a run with failed transfers exits with code 0.
C1_FileErrorContinues ==
    /\ [][(pc \in {"get_media", "open", "chunk"} /\ failures' # failures)
            => pc' = "file_except"]_vars
    /\ [][pc = "file_except"
            => /\ pc' = "item"
               /\ items' = Tail(items)
               /\ idx' = idx + 1
               /\ file_count' = file_count
               /\ nextPageToken' = nextPageToken
               /\ listFailedAt' = listFailedAt]_vars
    /\ [][(pc = "after_page" /\ nextPageToken # NoToken) => pc' = "list"]_vars
    /\ []((pc \in AfterLoop /\ failures > 0)
            => /\ listed = completed + failures + skipped
               /\ file_count = completed)
    /\ []((pc = "exited" /\ failures > 0) => exitCode = 0)

\* C1 witness: the entry (1, 1) failed after its file was opened, the run went
\* on to page 2, transferred its first entry and exited with code 0
C1_Witness ==
    /\ pc = "exited"
    /\ exitCode = 0
    /\ failures = 1
    /\ completed = 1
    /\ returned = 1
    /\ \E n \in Names : disk[n].src = <<1, 1>> /\ disk[n].st \in {"empty", "partial"}
    /\ \E n \in Names : disk[n].src = <<2, 1>> /\ disk[n].st = "full"

\* C2: once a listing call after the first has raised, no further listing
\* call is issued and no entry is transferred, download_all_files returns the
\* number of transfers completed before, and the process exits with code 0.
C2_LaterListingFailure ==
    listFailedAt > 1 =>
        /\ listCalls = listFailedAt
        /\ pc \in {"list_except"} \cup AfterLoop
        /\ handle = ""
        /\ requests = completed + failures
        /\ file_count = completed
        /\ (pc \in {"main_return", "exited"} => returned = completed)
        /\ (pc = "exited" => exitCode = 0)

\* C2 witness: page 1 gave a file, the second listing call raised, exit 0
C2_Witness ==
    /\ pc = "exited"
    /\ listFailedAt = 2
    /\ completed >= 1
    /\ returned = completed
    /\ exitCode = 0

\* C3: an entry whose mimeType starts with the native prefix is never
\* transferred: no get_media request, no open and no write happens for it, no
\* file of the save directory holds its bytes, and it is not counted.
C3_NativeSkipped ==
    /\ pc \in Transferring => CurItem.mimeType \notin NativeTypes
    /\ handle # "" => disk[handle].mimeType \notin NativeTypes
    /\ \A n \in Names : disk[n].mimeType \notin NativeTypes
    /\ file_count <= completed
    /\ completed <= requests
    /\ requests + skipped <= listed

\* C3 witness: a run that met a native entry and a binary one has ended
C3_Witness ==
    /\ pc = "exited"
    /\ skipped = 1
    /\ completed = 1
    /\ listed = 2
    /\ returned = 1

\* C4: the count download_all_files keeps, returns and logs is the number of
\* transfers that ran to completion; when the loop has ended every listed
\* entry was either skipped as native, or failed, or is one of them.
C4_CountIsCompleted ==
    /\ pc = "downloaded" => file_count + 1 = completed
    /\ pc # "downloaded" => file_count = completed
    /\ returned # -1 => returned = completed
    /\ pc = "main_return" => returned = file_count
    /\ (pc \in {"finish", "main_return"})
         => listed = completed + failures + skipped

\* C4 witness: two pages of two entries, one native entry on each, no error:
\* two files written, one from each page, and 2 returned
C4_Witness ==
    /\ pc = "exited"
    /\ exitCode = 0
    /\ listCalls = 2
    /\ listed = 4
    /\ skipped = 2
    /\ failures = 0
    /\ listFailedAt = 0
    /\ returned = 2
    /\ disk["a"].st = "full" /\ disk["a"].src[1] = 1
    /\ disk["b"].st = "full" /\ disk["b"].src[1] = 2

\* C5: when the token file holds a valid credential at the start, the
\* interactive flow is never started, no refresh is tried, the token file is
\* not written, authenticate raises nothing and returns the client, whether
\* or not the client-secret file exists.
C5_ValidTokenNoFlow ==
    tokenAtStart = "valid" =>
        /\ ~flowRan
        /\ refreshRan = "no"
        /\ pc \notin {"auth_refresh", "auth_flow", "auth_save_open", "auth_save_dump"}
        /\ tokenStore \in Credentials /\ tokenStore.token /\ ~tokenStore.expired
        /\ (pc \notin {"main", "auth_load", "auth_check", "auth_build"} => service)

\* C5 witness: the client was built from the cached credential although the
\* client-secret file does not exist, and the listing is about to start
C5_Witness ==
    /\ tokenAtStart = "valid"
    /\ ~secretExists
    /\ service
    /\ pc = "list"

\* C6: with no token file and no client-secret file the run ends with exit
\* code 1, before any listing call, and writes no file.
C6_NothingToAuthenticateWith ==
    (tokenAtStart = "absent" /\ ~secretExists) =>
        /\ pc \in {"main", "auth_load", "auth_check", "auth_flow", "main_except",
                   "exited"}
        /\ ~service
        /\ ~flowRan
        /\ listCalls = 0
        /\ requests = 0
        /\ handle = ""
        /\ \A n \in Names : disk[n] \in {NoFile, OldFile}
        /\ tokenStore = Absent
        /\ (pc = "exited" => exitCode = 1)

\* C6 witness: such a run has exited
C6_Witness ==
    /\ tokenAtStart = "absent"
    /\ ~secretExists
    /\ pc = "exited"
    /\ exitCode = 1
    /\ err = "FileNotFoundError"

\* C7 as stated: a token file whose bytes do not unpickle is not fatal; the
\* unpickling error does not reach the caller of authenticate.
C7_CorruptTokenNotFatal ==
    (tokenAtStart = "corrupt" /\ pc \in {"main_except", "exited"})
        => err \notin {"UnpicklingError", "EOFError"}

\* C8 as stated: a refresh the provider rejects does not end the run; the
\* refresh error does not reach the caller of authenticate.
C8_RefreshRejectedNotFatal ==
    (refreshRan = "rejected" /\ pc \in {"main_except", "exited"})
        => err # "RefreshError"

\* C9 as stated: when no listing call has failed, the loop of
\* download_all_files ends only on a response that carries no continuation
\* token.
C9_EndsOnlyWithoutToken ==
    (pc = "finish" /\ listFailedAt = 0) => nextPageToken = NoToken

C12_NoPartialFileLeft ==
    pc \notin {"chunk"} => \A n \in Names : disk[n].st \in {"none", "full"}

\* C14 as stated: no run leaves the token file empty or cut short.
C14_TokenStoreStaysLoadable ==
    pc = "exited" => tokenStore.kind # "truncated"

\* C13: when authenticate has returned the client after a refresh or after the
\* interactive flow, the token file holds the renewed credential; the token
\* file is written by the two steps of lines 46-49 only, which are reached only
\* after a refresh or a flow, so a run that loaded a valid credential never
\* writes it.
Renewed == flowRan \/ refreshRan = "ok"

C13_TokenStoreWrittenIffRenewed ==
    /\ [](service /\ Renewed => tokenStore = FreshCreds)
    /\ [](pc \in {"auth_save_open", "auth_save_dump"} => Renewed)
    /\ [](tokenAtStart = "valid" => ~Renewed /\ Class(tokenStore) = "valid")
    /\ [][tokenStore' # tokenStore =>
            pc \in {"auth_save_open", "auth_save_dump"}]_vars

C13_Witness ==
    /\ service
    /\ refreshRan = "ok"
    /\ tokenAtStart = "refreshable"
    /\ tokenStore = FreshCreds

\* C15: the step that completes a transfer leaves a file under the entry's
\* display name, and no step of the run removes a file from the save
\* directory: the name of every transferred entry is still there when the run
\* ends, whatever was processed after it.
C15_TransferredNameExists ==
    /\ [][completed' = completed + 1 => disk'[CurItem.name].st # "none"]_vars
    /\ [][\A n \in Names : disk[n].st # "none" => disk'[n].st # "none"]_vars

\* the first entry, named "a", was transferred; the second, of the same name,
\* failed after its file was opened; the run has ended and "a" exists
C15_Witness ==
    /\ pc = "exited"
    /\ listCalls = 1 /\ listed = 2 /\ skipped = 0
    /\ completed = 1 /\ failures = 1
    /\ disk["b"].st = "none"
    /\ disk["a"].src = <<1, 2>>
    /\ disk["a"].st \in {"empty", "partial"}

\* the names that exist in a save directory
FilesOf(d) == { n \in Names : d[n].st # "none" }

\* C16: when the program has run twice against the same remote, with each
\* file's transfer behaving the same both times, the save directory holds the
\* same names after the second run as after the first, each name holds the
\* content of the same entry, complete or not as after the first run, and
\* every file is one that was there before or is named after an entry whose
\* output file could be opened: nothing is duplicated or renamed.
C16_SecondRunSameFiles ==
    (run = 2 /\ pc = "exited") =>
        /\ FilesOf(disk) = FilesOf(diskAfterFirst)
        /\ \A n \in Names :
             /\ disk[n].src = diskAfterFirst[n].src
             /\ disk[n].st = "full" <=> diskAfterFirst[n].st = "full"
             /\ disk[n].st # "none" =>
                  \/ disk[n].src = <<0, 0>>
                  \/ \E i \in 1..Len(remote.files) :
                       /\ remote.files[i].name = n
                       /\ remote.files[i].mimeType \notin NativeTypes
                       /\ remote.files[i].fate \in {"ok", "chunk"}

\* both runs have ended; the remote has two transferable files of one name
\* and the save directory held an older file of that name
C16_Witness ==
    /\ run = 2 /\ pc = "exited"
    /\ Len(remote.files) = 2
    /\ \A i \in 1..2 : remote.files[i].name = "a" /\ remote.files[i].fate = "ok"
    /\ remote.files[1].mimeType \notin NativeTypes
    /\ remote.files[2].mimeType \notin NativeTypes
    /\ returned = 2
    /\ FilesOf(disk) = {"a"}
    /\ disk["a"].st = "full"

\* C17: an output file is open only while the chunks of the entry the for
\* loop is at are fetched, and it is that entry's file: it is closed, after
\* the last chunk or after a raised one, before the loop goes to the next
\* entry, to the next listing call or out of the loop; and an entry is
\* transferred only after the listing call that returned its page.
C17_OneHandleSequential ==
    /\ handle # "" =>
         /\ pc = "chunk"
         /\ items # <<>>
         /\ handle = CurItem.name
    /\ pc \in Transferring =>
         /\ items # <<>>
         /\ listCalls >= 1
         /\ listFailedAt = 0
         /\ idx >= 1
         /\ completed + failures + skipped + Len(items) =
              listed + (IF pc \in {"downloaded", "file_except"} THEN 1 ELSE 0)

\* the first entry's transfer raised after its file was opened, the file is
\* closed and the transfer of the second entry begins
C17_Witness ==
    /\ pc = "get_media"
    /\ idx = 2
    /\ failures = 1
    /\ handle = ""
    /\ \E n \in Names :
         disk[n].src = <<1, 1>> /\ disk[n].st \in {"empty", "partial"}

\* the files of the fixed remote that are transferred under name n with their
\* output file opened, those whose transfer runs to the end, and the place
\* (page, index) at which the listing returns file i
Opening(n) ==
    { i \in 1..Len(remote.files) :
        /\ remote.files[i].name = n
        /\ remote.files[i].mimeType \notin NativeTypes
        /\ remote.files[i].fate \in {"ok", "chunk"} }

Succeeding ==
    { i \in 1..Len(remote.files) :
        /\ remote.files[i].mimeType \notin NativeTypes
        /\ remote.files[i].fate = "ok" }

PlaceOf(i) ==
    << ((i - 1) \div remote.pageLen) + 1, ((i - 1) % remote.pageLen) + 1 >>

\* C18: when a run has ended, each name under which files of the remote were
\* written holds the content of the last of them in listing order, complete
\* when that one's transfer succeeded, so of two successful entries of one
\* name the later one's content is what is left; and the returned count is
\* the number of successful entries, same-named ones counted each.
C18_LaterEntryOverwrites ==
    pc = "exited" =>
        /\ returned = Cardinality(Succeeding)
        /\ \A n \in Names :
             Opening(n) # {} =>
                LET last == CHOOSE i \in Opening(n) :
                                \A j \in Opening(n) : j <= i
                IN  /\ disk[n].src = PlaceOf(last)
                    /\ disk[n].st # "none"
                    /\ last \in Succeeding => disk[n].st = "full"

\* the first run has ended: two successful files named "a", one file on disk,
\* holding the second one's content, and a count of two
C18_Witness ==
    /\ run = 1 /\ pc = "exited"
    /\ Opening("a") = {1, 2}
    /\ Succeeding = {1, 2}
    /\ returned = 2
    /\ Cardinality(FilesOf(disk)) = 1
    /\ disk["a"].src = PlaceOf(2)
    /\ disk["a"].st = "full"

\* the states of the run of download_all_files: START before the loop of line
\* 61 is entered, LISTING at the listing call and the test of its result
\* (lines 62-73), DOWNLOADING_PAGE in the for loop and at the token test (lines
\* 76-100), ABORTED from the handler of line 102 on, DONE after any other end
\* of the loop; OUTSIDE is the rest of the program
Phase ==
    CASE pc = "makedirs" -> "START"
      [] pc \in {"list", "check_items"} -> "LISTING"
      [] pc \in Transferring \cup {"item", "after_page"} -> "DOWNLOADING_PAGE"
      [] pc = "list_except" -> "ABORTED"
      [] (pc = "finish" \/ returned # -1) /\ listFailedAt > 0 -> "ABORTED"
      [] (pc = "finish" \/ returned # -1) /\ listFailedAt = 0 -> "DONE"
      [] OTHER -> "OUTSIDE"

PhaseSteps ==
    { <<"START", "LISTING">>,
      <<"LISTING", "DOWNLOADING_PAGE">>,
      <<"DOWNLOADING_PAGE", "LISTING">>,
      <<"DOWNLOADING_PAGE", "DONE">>,
      <<"LISTING", "DONE">>,
      <<"LISTING", "ABORTED">> }

\* C19: inside the loop the run changes state by the listed transitions only;
\* it goes to DOWNLOADING_PAGE only with a non-empty page, back to LISTING
\* only with a continuation token, to DONE only on an empty page or without a
\* token, and to ABORTED only by a listing call that raised, never from the
\* processing of entries; DONE and ABORTED are not left; and a run that has
\* reached the loop returns.  (START is left for LISTING, or, before the loop
\* is reached, by os.makedirs raising.)
C19_RunStateMachine ==
    /\ [][(Phase' # Phase /\ Phase # "OUTSIDE") =>
            \/ <<Phase, Phase'>> \in PhaseSteps
            \/ Phase = "START" /\ pc' = "main_except"]_vars
    /\ [][(Phase # "ABORTED" /\ Phase' = "ABORTED") =>
            pc = "list" /\ listFailedAt' = listCalls']_vars
    /\ [][(Phase # "DONE" /\ Phase' = "DONE") =>
            \/ pc = "check_items" /\ items = <<>>
            \/ pc = "after_page" /\ nextPageToken = NoToken]_vars
    /\ [][(Phase = "DOWNLOADING_PAGE" /\ Phase' = "LISTING") =>
            nextPageToken # NoToken /\ items = <<>>]_vars
    /\ (pc = "list") ~> (returned # -1)

\* the first page was downloaded, the second listing call raised, and the
\* run has returned the count of the first page
C19_Witness ==
    /\ returned = 1
    /\ listCalls = 2
    /\ listFailedAt = 2
    /\ completed = 1
    /\ pc = "exited"

====
